---- MODULE Spec2Model ----
(***************************************************************************)
(* Co-STORM knowledge base: batch insertion (InsertInformationModule) and  *)
(* node expansion (ExpandNodeModule) of                                    *)
(* knowledge_storm/collaborative_storm/modules/information_insertion_      *)
(* module.py, over the KnowledgeBase / KnowledgeNode container.            *)
(*                                                                         *)
(* The tree is held in one record, knowledge_base: node k (1 is the root)  *)
(* has name[k], parent[k] (0 for the root), children[k] (ordered) and      *)
(* content[k] (a set of information ids), synthesize_output[k] (the cached  *)
(* section text as a list of lines, <<>> when there is none) and           *)
(* need_regenerate_synthesize_output[k]; info[i] is the Information        *)
(* registered under id i (info_uuid_to_info_dict).                         *)
(*                                                                         *)
(* A placement string "a -> b -> c" is modelled as the sequence of its     *)
(* " -> "-separated segments, so that joining names and splitting the      *)
(* string again is not the identity on a name that contains " -> ".        *)
(***************************************************************************)
EXTENDS Naturals, Integers, Sequences, FiniteSets, TLC

\* ------------------------------------------------------------------ bounds
MaxNodes == 4
MaxHandled == 2
MaxPasses == 1

\* ------------------------------------------------------- program parameters
node_expansion_trigger_count == 2

\* ------------------------------------------------------------ input domains
Urls == {"u1", "u2"}
Questions == {"q1", "q2"}
Queries == {"x"}
\* two urls retrieved for one intent, and one url retrieved for two intents
Information == {i \in [url : Urls, question : Questions, query : Queries] :
                   ~(i.url = "u2" /\ i.question = "q2")}

\* names a navigation answer "create: <name>" may carry
CreateNames == {"A", "A -> B"}
\* raw lines of an ExpandSection answer
RawLines == {"A", "B", "1. A"}

BoundedSeq(S, n) == UNION {[1..k -> S] : k \in 0..n}

Min(S) == CHOOSE x \in S : \A y \in S : x <= y

RECURSIVE SetToSeq(_)
SetToSeq(S) == IF S = {} THEN <<>> ELSE <<Min(S)>> \o SetToSeq(S \ {Min(S)})

RECURSIVE Flatten(_)
Flatten(ss) == IF ss = <<>> THEN <<>> ELSE Head(ss) \o Flatten(Tail(ss))

\* ---------------------------------------------------------- KnowledgeNode
Nodes(kb) == 1..Len(kb.name)

get_children_names(kb, n) == [i \in 1..Len(kb.children[n]) |-> kb.name[kb.children[n][i]]]

RECURSIVE get_path_from_root(_, _, _)
get_path_from_root(kb, n, root) ==
    IF n = root \/ kb.parent[n] = 0
    THEN <<kb.name[n]>>
    ELSE Append(get_path_from_root(kb, kb.parent[n], root), kb.name[n])

RECURSIVE collect_all_content(_, _)
collect_all_content(kb, n) ==
    kb.content[n] \cup
    UNION {collect_all_content(kb, kb.children[n][i]) : i \in 1..Len(kb.children[n])}

RECURSIVE Subtree(_, _)
Subtree(kb, n) ==
    {n} \cup UNION {Subtree(kb, kb.children[n][i]) : i \in 1..Len(kb.children[n])}

\* first child of n, in insertion order, whose name is seg; 0 when there is none
find_child(kb, n, seg) ==
    LET idx == {i \in 1..Len(kb.children[n]) : kb.name[kb.children[n][i]] = seg}
    IN IF idx = {} THEN 0 ELSE kb.children[n][Min(idx)]

add_child(kb, p, nm) ==
    [kb EXCEPT !.name = Append(@, nm),
               !.parent = Append(@, p),
               !.children = Append([@ EXCEPT ![p] = Append(@, Len(kb.name) + 1)], <<>>),
               !.content = Append(@, {}),
               !.synthesize_output = Append(@, <<>>),
               !.need_regenerate_synthesize_output = Append(@, TRUE)]

\* ---------------------------------------------------------- KnowledgeBase
\* the segments of the string " -> ".join(names)
PathSegments(nm) == IF nm = "A -> B" THEN <<"A", "B">> ELSE <<nm>>

JoinPath(names) == Flatten([i \in 1..Len(names) |-> PathSegments(names[i])])

IsRegistered(kb, info) == \E i \in 1..Len(kb.info) : kb.info[i] = info

InfoId(kb, info) == CHOOSE i \in 1..Len(kb.info) : kb.info[i] = info

register_information_renumbering(kb, info) ==
    IF IsRegistered(kb, info) THEN kb ELSE [kb EXCEPT !.info = <<info>> \o @]

register_information(kb, info) ==
    IF IsRegistered(kb, info) THEN kb ELSE [kb EXCEPT !.info = Append(@, info)]

RECURSIVE find_node_by_path_always_creating(_, _, _, _)
find_node_by_path_always_creating(kb, cur, segs, missing_node_handling) ==
    IF segs = <<>> THEN [kb |-> kb, node |-> cur, segment |-> ""]
    ELSE LET c == find_child(kb, cur, Head(segs)) IN
         IF c # 0
         THEN find_node_by_path_always_creating(kb, c, Tail(segs), missing_node_handling)
         ELSE LET kb2 == add_child(kb, cur, Head(segs))
              IN find_node_by_path_always_creating(kb2, Len(kb2.name), Tail(segs),
                                                   missing_node_handling)

\* walks segs from cur; node = 0 stands for PathNotFoundError, which names
\* the first unmatched segment
RECURSIVE find_node_by_path(_, _, _, _)
find_node_by_path(kb, cur, segs, missing_node_handling) ==
    IF segs = <<>> THEN [kb |-> kb, node |-> cur, segment |-> ""]
    ELSE LET c == find_child(kb, cur, Head(segs)) IN
         IF c # 0 THEN find_node_by_path(kb, c, Tail(segs), missing_node_handling)
         ELSE IF missing_node_handling = "create"
              THEN LET kb2 == add_child(kb, cur, Head(segs))
                   IN find_node_by_path(kb2, Len(kb2.name), Tail(segs), missing_node_handling)
              ELSE [kb |-> kb, node |-> 0, segment |-> Head(segs)]

\* number of nodes insert_information would create for this path
NewNodesNeeded(kb, root, path) ==
    Len(find_node_by_path(kb, root, Tail(path), "create").kb.name) - Len(kb.name)

insert_information_files_next_id(kb, path, info, missing_node_handling, root) ==
    LET kb1 == register_information(kb, info)
        w == find_node_by_path(kb1, root, Tail(path), missing_node_handling)
    IN IF w.node = 0
       THEN [raised |-> TRUE, kb |-> kb1, node |-> 0, id |-> InfoId(kb1, info),
             segment |-> w.segment]
       ELSE [raised |-> FALSE,
             kb |-> [w.kb EXCEPT !.content[w.node] = @ \cup {Len(kb1.info) + 1},
                                 !.need_regenerate_synthesize_output[w.node] = TRUE],
             node |-> w.node, id |-> Len(kb1.info) + 1, segment |-> ""]

insert_information(kb, path, info, missing_node_handling, root) ==
    LET kb1 == register_information(kb, info)
        id == InfoId(kb1, info)
        w == find_node_by_path(kb1, root, Tail(path), missing_node_handling)
    IN IF w.node = 0
       THEN [raised |-> TRUE, kb |-> kb1, node |-> 0, id |-> id, segment |-> w.segment]
       ELSE [raised |-> FALSE,
             kb |-> [w.kb EXCEPT !.content[w.node] = @ \cup {id},
                                 !.need_regenerate_synthesize_output[w.node] = TRUE],
             node |-> w.node, id |-> id, segment |-> ""]

\* DuplicateNameError when a child of parent_node already has that name
insert_node(kb, new_node_name, parent_node) ==
    IF find_child(kb, parent_node, new_node_name) # 0
    THEN [raised |-> TRUE, kb |-> kb]
    ELSE [raised |-> FALSE, kb |-> add_child(kb, parent_node, new_node_name)]

\* the outline strings of get_knowledge_base_structure_embedding(root)
Outlines(kb, root) == {JoinPath(get_path_from_root(kb, n, root)) : n \in Subtree(kb, root)}

\* ------------------------------------------------ InsertInformationModule
None == [found |-> FALSE, path |-> <<>>]
Prediction(path) == [found |-> TRUE, path |-> path]

get_placement_path_from_tree_root(kb, current_node, root) == get_path_from_root(kb, current_node, 1)

\* current_node.get_path_from_root(root): the names from the insertion root
\* down to the node at which navigation stands
get_placement_path(kb, current_node, root) == get_path_from_root(kb, current_node, root)

RECURSIVE layer_by_layer_navigation_placement_appending(_, _, _, _)
layer_by_layer_navigation_placement_appending(kb, current_node, allow_create_new_node, root) ==
    LET placement_path == get_placement_path(kb, current_node, root) IN
    {[raised |-> TRUE, prediction |-> None, action_type |-> "", current_node |-> current_node]}
    \cup {[raised |-> FALSE, prediction |-> Prediction(JoinPath(placement_path)),
           action_type |-> "insert", current_node |-> current_node]}
    \cup {[raised |-> FALSE,
           prediction |-> Prediction(JoinPath(Append(placement_path, node_name))),
           action_type |-> "create", current_node |-> current_node]
          : node_name \in CreateNames}
    \cup UNION {layer_by_layer_navigation_placement_appending(
                    kb, kb.children[current_node][i], allow_create_new_node, root)
                : i \in 1..Len(kb.children[current_node])}

\* outcomes of one navigation from current_node: a Prediction, or raised
\* (the collaborator call fails, its answer names no known action, or it
\* steps to a child that does not exist); action_type and current_node are
\* the last answer of the collaborator and the node at which it was given
RECURSIVE layer_by_layer_navigation_placement(_, _, _, _)
layer_by_layer_navigation_placement(kb, current_node, allow_create_new_node, root) ==
    LET placement_path == get_placement_path(kb, current_node, root) IN
    {[raised |-> TRUE, prediction |-> None, action_type |-> "", current_node |-> current_node]}
    \cup {[raised |-> FALSE, prediction |-> Prediction(JoinPath(placement_path)),
           action_type |-> "insert", current_node |-> current_node]}
    \cup {[raised |-> FALSE,
           prediction |-> Prediction(JoinPath(IF allow_create_new_node
                                              THEN Append(placement_path, node_name)
                                              ELSE placement_path)),
           action_type |-> "create", current_node |-> current_node]
          : node_name \in CreateNames}
    \cup UNION {layer_by_layer_navigation_placement(
                    kb, kb.children[current_node][i], allow_create_new_node, root)
                : i \in 1..Len(kb.children[current_node])}

\* outcomes of the embedding shortcut: raised, no candidate, or one outline
choose_candidate_from_embedding_ranking(outlines) ==
    {[raised |-> TRUE, prediction |-> None], [raised |-> FALSE, prediction |-> None]}
    \cup {[raised |-> FALSE, prediction |-> Prediction(o)] : o \in outlines}

\* outcomes of process_intent: every exception is turned into None
process_intent(kb, allow_create_new_node, root, skip_candidate_from_embedding, outlines) ==
    LET cands == IF skip_candidate_from_embedding
                 THEN {[raised |-> FALSE, prediction |-> None]}
                 ELSE choose_candidate_from_embedding_ranking(outlines)
        navs == layer_by_layer_navigation_placement(kb, root, allow_create_new_node, root)
    IN {[failed |-> TRUE, prediction |-> None] : c \in {x \in cands : x.raised}}
       \cup {[failed |-> FALSE, prediction |-> c.prediction]
             : c \in {x \in cands : ~x.raised /\ x.prediction.found}}
       \cup {[failed |-> n.raised, prediction |-> n.prediction]
             : n \in {y \in navs : \E c \in cands : ~c.raised /\ ~c.prediction.found}}

IntentOfUrl(info) == <<info.question, info.url>>

\* the key of intent_to_placement_dict: (question, query) of info.meta
IntentOf(info) == <<info.question, info.query>>

\* keys of intent_to_placement_dict, in the order in which the dict yields them
RECURSIVE IntentOrder(_)
IntentOrder(information_list) ==
    IF information_list = <<>> THEN <<>>
    ELSE LET rest == IntentOrder(SubSeq(information_list, 1, Len(information_list) - 1))
             intent == IntentOf(information_list[Len(information_list)])
         IN IF \E i \in 1..Len(rest) : rest[i] = intent THEN rest ELSE Append(rest, intent)

info_list_to_intent_mapping(information_list) ==
    [intent \in {IntentOf(information_list[i]) : i \in 1..Len(information_list)} |-> None]


\* insert_info_to_kb: the handling handed to insert_information
SelectMissingNodeHandlingInverted(allow) == IF ~allow THEN "create" ELSE "raise error"

SelectMissingNodeHandling(allow) == IF ~allow THEN "raise error" ELSE "create"

AnyFutureCompleted(dict_keys, done) == \E intent \in dict_keys : intent \in done

NoFutureAwaited(dict_keys, done) == TRUE

\* the with-block of the thread pool is left when every future has completed
AllFuturesCompleted(dict_keys, done) == \A intent \in dict_keys : intent \in done

\* ------------------------------------------------------------------- state
VARIABLES
    knowledge_base,                 \* the KnowledgeBase: tree and id map
    pc,                             \* "idle", "embed", "batch" or "expand"
    caller,                         \* who called InsertInformationModule.forward
    handled,                        \* number of Information handed over by conversation threads
    passes,                         \* number of expansion passes started
    information,                    \* forward: the batch, a list of Information
    allow_create_new_node,          \* forward: node creation enabled
    insert_root,                    \* forward: root of the insertion (1 when None)
    skip_candidate_from_embedding,  \* forward: skip the embedding shortcut
    intent_to_placement_dict,       \* forward: intent -> Prediction or None
    decided,                        \* forward: intents whose process_intent has returned
    to_return,                      \* forward: list of (info, placement)
    expanded_nodes,                 \* ExpandNodeModule.forward: nodes processed
    forward_result,                 \* history: how the last batch insertion ended
    expand_result,                  \* history: how the last expansion pass ended
    failed_intents,                 \* history: intents of the batch with a failed collaborator call
    dropped,                        \* history: Information that got no placement (while only_create)
    filed,                          \* history: ids that were filed at a node (while only_create)
    only_create,                    \* history: every call so far was a batch with node creation
    exp,                            \* history: the last _expand_node attempt
    handed,                         \* history: nodes handed to _expand_node in this pass
    last_call,                      \* history: the last direct call of a KnowledgeBase operation
    threads,                        \* conversation threads inside InsertInformationModule.forward
    warmstart                       \* WarmStartConversation.forward and its expert workers

vars == <<knowledge_base, pc, caller, handled, passes, information, allow_create_new_node,
          insert_root, skip_candidate_from_embedding, intent_to_placement_dict,
          decided, to_return, expanded_nodes, forward_result, expand_result,
          failed_intents, dropped, filed, only_create, exp, handed, last_call, threads,
          warmstart>>

\* the state of the single caller of the two modules, the tree apart
insertion_vars == <<pc, caller, passes, information, allow_create_new_node, insert_root,
                    skip_candidate_from_embedding, intent_to_placement_dict, decided,
                    to_return, expanded_nodes, forward_result, expand_result,
                    failed_intents, dropped, filed, only_create, exp, handed>>

module_vars == <<insertion_vars, warmstart>>

other_callers == <<last_call, threads, warmstart>>

batch_vars == <<information, allow_create_new_node, insert_root,
                skip_candidate_from_embedding, intent_to_placement_dict,
                decided, to_return>>

\* phase: "none", "unsplit" (given up), "split" (re-insertion running),
\* "done" (_expand_node returned after a split) or "failed" (an exception);
\* before: the knowledge base when _expand_node was entered; answered: the
\* ExpandSection collaborator answered, with the lines in proposed
NoCall == [op |-> "none", path |-> <<>>, root |-> 0, missing_node_handling |-> "",
           raised |-> FALSE, segment |-> "", report |-> <<>>, before |-> {},
           merged |-> FALSE, answer |-> "", pending |-> {}, node_to_paragraph |-> <<>>,
           started |-> <<>>, rewritten |-> {}, sorted_candidates |-> <<>>,
           top_N_candidates |-> 0, selected_index |-> 0, placement |-> None]

Threads == {"t1", "t2"}

NoThread == [pc |-> "idle", information |-> <<>>, allow_create_new_node |-> FALSE,
             outlines |-> {}, intent_to_placement_dict |-> <<>>, decided |-> {},
             reading |-> {}, to_return |-> <<>>, result |-> "none", structural |-> {}]

\* ----------------------------------------- WarmStartConversation: parameters
max_num_experts == 3
max_turn_per_experts == 2
\* number of experts the expert generator may return
MaxExperts == 4

Workers == 1..max_num_experts

\* the turn of background_seeking_dialogue
BackgroundTurn == [role |-> 0, turn |-> 0]

\* worker pc: "none" (not submitted), "turn" (at the head of the loop),
\* "asking" (between the two locked blocks), "appending" (inside the second);
\* idx: turns finished or failed; local: the list as read by the append
NoWorker == [pc |-> "none", idx |-> 0, local |-> <<>>]

\* lock: 0 when free, else the worker holding it; completed / failed: the
\* turns that ended without / with an exception
NoWarmStart == [pc |-> "idle", experts |-> 0, conversation_history |-> <<>>, lock |-> 0,
                worker |-> [e \in Workers |-> NoWorker], completed |-> {}, failed |-> {}]

NoExp == [phase |-> "none", node |-> 0, before |-> <<>>, answered |-> FALSE,
          proposed |-> <<>>, new_children |-> {}]

Init ==
    /\ knowledge_base = [name |-> <<"root">>, parent |-> <<0>>, children |-> << <<>> >>,
                         content |-> <<{}>>, synthesize_output |-> << <<>> >>,
                         need_regenerate_synthesize_output |-> <<TRUE>>, info |-> <<>>]
    /\ last_call = NoCall
    /\ threads = [t \in Threads |-> NoThread]
    /\ warmstart = NoWarmStart
    /\ pc = "idle"
    /\ caller = "user"
    /\ handled = 0
    /\ passes = 0
    /\ information = <<>>
    /\ allow_create_new_node = FALSE
    /\ insert_root = 1
    /\ skip_candidate_from_embedding = FALSE
    /\ intent_to_placement_dict = <<>>
    /\ decided = {}
    /\ to_return = <<>>
    /\ expanded_nodes = <<>>
    /\ forward_result = "none"
    /\ expand_result = "none"
    /\ failed_intents = {}
    /\ dropped = {}
    /\ filed = {}
    /\ only_create = TRUE
    /\ exp = NoExp
    /\ handed = <<>>

\* an exception leaves InsertInformationModule.forward; when the caller is
\* _expand_node it goes on through ExpandNodeModule.forward, which catches nothing
ForwardRaisesTo(new_exp) ==
    /\ forward_result' = "raised"
    /\ pc' = "idle"
    /\ IF caller = "expand"
       THEN /\ expand_result' = "raised"
            /\ exp' = new_exp
       ELSE UNCHANGED <<expand_result, exp>>

ForwardRaises == ForwardRaisesTo([exp EXCEPT !.phase = "failed"])

\* InsertInformationModule.forward is called by a conversation thread
Forward(information_list, allow, root, skip) ==
    /\ pc = "idle"
    /\ handled + Len(information_list) <= MaxHandled
    /\ handled' = handled + Len(information_list)
    /\ information' = information_list
    /\ allow_create_new_node' = allow
    /\ insert_root' = root
    /\ skip_candidate_from_embedding' = skip
    /\ intent_to_placement_dict' = info_list_to_intent_mapping(information_list)
    /\ decided' = {}
    /\ to_return' = <<>>
    /\ caller' = "user"
    /\ pc' = "embed"
    /\ forward_result' = "running"
    /\ failed_intents' = {}
    /\ only_create' = (only_create /\ allow)
    /\ dropped' = IF only_create /\ allow THEN dropped ELSE {}
    /\ filed' = IF only_create /\ allow THEN filed ELSE {}
    /\ exp' = NoExp
    /\ handed' = <<>>
    /\ expanded_nodes' = <<>>
    /\ expand_result' = "none"
    /\ UNCHANGED <<knowledge_base, passes>>
    /\ UNCHANGED other_callers

\* get_knowledge_base_structure_embedding(root=insert_root) returns
StructureEmbedding ==
    /\ pc = "embed"
    /\ pc' = "batch"
    /\ UNCHANGED <<knowledge_base, caller, handled, passes, batch_vars, expanded_nodes,
                   forward_result, expand_result, failed_intents, dropped, filed,
                   only_create, exp, handed>>
    /\ UNCHANGED other_callers

\* the embedding collaborator fails inside get_knowledge_base_structure_embedding
StructureEmbeddingRaises ==
    /\ pc = "embed"
    /\ ForwardRaises
    /\ UNCHANGED <<knowledge_base, caller, handled, passes, batch_vars, expanded_nodes,
                   failed_intents, dropped, filed, only_create, handed>>
    /\ UNCHANGED other_callers

PendingNewNodes ==
    LET need(intent) == IF intent_to_placement_dict[intent].found
                        THEN NewNodesNeeded(knowledge_base, insert_root,
                                            intent_to_placement_dict[intent].path)
                        ELSE 0
        order == IntentOrder(information)
        RECURSIVE sum(_)
        sum(i) == IF i = 0 THEN 0 ELSE need(order[i]) + sum(i - 1)
    IN sum(Len(order))

WithinNodeBudget(outcome) ==
    IF outcome.prediction.found
    THEN Len(knowledge_base.name) + PendingNewNodes
         + NewNodesNeeded(knowledge_base, insert_root, outcome.prediction.path) <= MaxNodes
    ELSE TRUE

RecordDecision(intent, outcome) ==
    /\ intent_to_placement_dict' = [intent_to_placement_dict EXCEPT ![intent] = outcome.prediction]
    /\ decided' = decided \cup {intent}
    /\ failed_intents' = IF outcome.failed THEN failed_intents \cup {intent} ELSE failed_intents

\* node creation disallowed: a worker thread finishes process_intent for one
\* intent and the main thread stores its result
DecideParallel(intent) ==
    /\ pc = "batch"
    /\ ~allow_create_new_node
    /\ intent \in DOMAIN intent_to_placement_dict
    /\ intent \notin decided
    /\ \E outcome \in process_intent(knowledge_base, FALSE, insert_root,
                                     skip_candidate_from_embedding,
                                     Outlines(knowledge_base, insert_root)) :
          RecordDecision(intent, outcome)
    /\ UNCHANGED <<knowledge_base, pc, caller, handled, passes, information, allow_create_new_node,
                   insert_root, skip_candidate_from_embedding, to_return, expanded_nodes,
                   forward_result, expand_result, dropped, filed, only_create, exp, handed>>
    /\ UNCHANGED other_callers

NextIntent ==
    LET order == IntentOrder(information)
    IN order[Min({i \in 1..Len(order) : order[i] \notin decided})]

\* node creation enabled: one iteration of the sequential decision loop
DecideSequential ==
    /\ pc = "batch"
    /\ allow_create_new_node
    /\ \E intent \in DOMAIN intent_to_placement_dict : intent \notin decided
    /\ \E outcome \in process_intent(knowledge_base, TRUE, insert_root,
                                     skip_candidate_from_embedding,
                                     Outlines(knowledge_base, insert_root)) :
          /\ WithinNodeBudget(outcome)
          /\ RecordDecision(NextIntent, outcome)
    /\ UNCHANGED <<knowledge_base, pc, caller, handled, passes, information, allow_create_new_node,
                   insert_root, skip_candidate_from_embedding, to_return, expanded_nodes,
                   forward_result, expand_result, dropped, filed, only_create, exp, handed>>
    /\ UNCHANGED other_callers

\* node creation enabled: the embedding collaborator fails at the head of an
\* iteration of the decision loop, outside process_intent
DecideSequentialRaises ==
    /\ pc = "batch"
    /\ allow_create_new_node
    /\ \E intent \in DOMAIN intent_to_placement_dict : intent \notin decided
    /\ failed_intents' = failed_intents \cup {NextIntent}
    /\ ForwardRaises
    /\ UNCHANGED <<knowledge_base, caller, handled, passes, information, allow_create_new_node,
                   insert_root, skip_candidate_from_embedding, intent_to_placement_dict,
                   decided, to_return, expanded_nodes, dropped, filed, only_create, handed>>
    /\ UNCHANGED other_callers

\* back mapping: insert_info_to_kb for the next Information of the batch
Apply ==
    /\ pc = "batch"
    /\ AllFuturesCompleted(DOMAIN intent_to_placement_dict, decided)
    /\ Len(to_return) < Len(information)
    /\ LET info == information[Len(to_return) + 1]
           placement_prediction == intent_to_placement_dict[IntentOf(info)]
           missing_node_handling == SelectMissingNodeHandling(allow_create_new_node)
           r == insert_information(knowledge_base, placement_prediction.path, info,
                                   missing_node_handling, insert_root)
       IN IF ~placement_prediction.found
          THEN /\ to_return' = Append(to_return, <<info, placement_prediction>>)
               /\ dropped' = IF only_create THEN dropped \cup {info} ELSE dropped
               /\ UNCHANGED <<knowledge_base, pc, filed, forward_result, expand_result, exp>>
          ELSE IF r.raised
          THEN /\ knowledge_base' = r.kb
               /\ ForwardRaises
               /\ UNCHANGED <<to_return, dropped, filed>>
          ELSE /\ knowledge_base' = r.kb
               /\ to_return' = Append(to_return, <<info, placement_prediction>>)
               /\ filed' = IF only_create THEN filed \cup {r.id} ELSE filed
               /\ UNCHANGED <<pc, dropped, forward_result, expand_result, exp>>
    /\ UNCHANGED <<caller, handled, passes, information, allow_create_new_node, insert_root,
                   skip_candidate_from_embedding, intent_to_placement_dict, decided,
                   expanded_nodes, failed_intents, only_create, handed>>
    /\ UNCHANGED other_callers

\* return to_return: to a conversation thread, or to _expand_node, which
\* returns to the loop of ExpandNodeModule.forward
ForwardReturn ==
    /\ pc = "batch"
    /\ AllFuturesCompleted(DOMAIN intent_to_placement_dict, decided)
    /\ Len(to_return) = Len(information)
    /\ forward_result' = "returned"
    /\ IF caller = "expand"
       THEN /\ pc' = "expand"
            /\ expanded_nodes' = Append(expanded_nodes, exp.node)
            /\ exp' = [exp EXCEPT !.phase = "done"]
       ELSE /\ pc' = "idle"
            /\ UNCHANGED <<expanded_nodes, exp>>
    /\ UNCHANGED <<knowledge_base, caller, handled, passes, batch_vars,
                   expand_result, failed_intents, dropped, filed, only_create, handed>>
    /\ UNCHANGED other_callers

\* the batches a conversation turn hands over: no Information twice in one batch
Batches == {b \in BoundedSeq(Information, MaxHandled) :
               b # <<>> /\ \A i, j \in 1..Len(b) : i # j => b[i] # b[j]}

\* --------------------------------------------------------- ExpandNodeModule
MaxLines == 2

InSeq(x, seq) == \E i \in 1..Len(seq) : seq[i] = x

\* line 393: a leading "<digits>. " and every occurrence of the node's own
\* name are removed from a raw line
clean_subsection_line(raw, node_name) ==
    LET text == IF raw = "1. A" THEN "A" ELSE raw
    IN IF text = node_name THEN "" ELSE text

\* _get_expand_subnode_names: an answer without a line break gives no names
get_expand_subnode_names(lines, node_name) ==
    IF Len(lines) >= 2
    THEN [i \in 1..Len(lines) |-> clean_subsection_line(lines[i], node_name)]
    ELSE <<>>

AlreadyExpandedUnchecked(node, expanded) == FALSE

\* "root in expanded_nodes"
AlreadyExpanded(node, expanded) == InSeq(node, expanded)

RECURSIVE find_first_node_to_expand_children_first(_, _, _)
find_first_node_to_expand_children_first(kb, root, expanded) ==
    LET RECURSIVE scan(_)
        scan(i) == IF i > Len(kb.children[root]) THEN 0
                   ELSE LET to_return_node ==
                                find_first_node_to_expand_children_first(
                                    kb, kb.children[root][i], expanded)
                        IN IF to_return_node # 0 THEN to_return_node ELSE scan(i + 1)
    IN IF scan(1) # 0 THEN scan(1)
       ELSE IF ~AlreadyExpanded(root, expanded)
               /\ Cardinality(kb.content[root]) >= node_expansion_trigger_count
       THEN root
       ELSE 0

RECURSIVE find_first_node_to_expand(_, _, _)
find_first_node_to_expand(kb, root, expanded) ==
    IF ~AlreadyExpanded(root, expanded)
       /\ Cardinality(kb.content[root]) >= node_expansion_trigger_count
    THEN root
    ELSE LET RECURSIVE scan(_)
             scan(i) == IF i > Len(kb.children[root]) THEN 0
                        ELSE LET to_return_node ==
                                     find_first_node_to_expand(kb, kb.children[root][i], expanded)
                             IN IF to_return_node # 0 THEN to_return_node ELSE scan(i + 1)
         IN scan(1)

ExpansionSkippedFlipped(subsection_names) == Len(subsection_names) > 1

\* _expand_node gives up without touching the node
ExpansionSkipped(subsection_names) == Len(subsection_names) <= 1

RECURSIVE insert_subsections_unchecked(_, _, _)
insert_subsections_unchecked(kb, subsection_names, node) ==
    IF subsection_names = <<>> THEN [raised |-> FALSE, kb |-> kb]
    ELSE insert_subsections_unchecked(add_child(kb, node, Head(subsection_names)),
                                      Tail(subsection_names), node)

\* the loop "for subsection_name in subsection_names: insert_node(...)", which
\* stops at the first DuplicateNameError
RECURSIVE insert_subsections(_, _, _)
insert_subsections(kb, subsection_names, node) ==
    IF subsection_names = <<>> THEN [raised |-> FALSE, kb |-> kb]
    ELSE LET r == insert_node(kb, Head(subsection_names), node)
         IN IF r.raised THEN r ELSE insert_subsections(r.kb, Tail(subsection_names), node)

original_cited_information_as_copies(kb, node) ==
    LET ids == SetToSeq(kb.content[node])
    IN [i \in 1..Len(ids) |-> [kb.info[ids[i]] EXCEPT !.url = "copy"]]

\* original_cited_information, in ascending id order
original_cited_information(kb, node) ==
    LET ids == SetToSeq(kb.content[node]) IN [i \in 1..Len(ids) |-> kb.info[ids[i]]]

\* ExpandNodeModule.forward is called
ExpandForward ==
    /\ pc = "idle"
    /\ passes < MaxPasses
    /\ passes' = passes + 1
    /\ pc' = "expand"
    /\ caller' = "user"
    /\ expanded_nodes' = <<>>
    /\ handed' = <<>>
    /\ expand_result' = "running"
    /\ forward_result' = "none"
    /\ exp' = NoExp
    /\ only_create' = FALSE
    /\ dropped' = {}
    /\ filed' = {}
    /\ failed_intents' = {}
    /\ information' = <<>>
    /\ allow_create_new_node' = FALSE
    /\ insert_root' = 1
    /\ skip_candidate_from_embedding' = FALSE
    /\ intent_to_placement_dict' = <<>>
    /\ decided' = {}
    /\ to_return' = <<>>
    /\ UNCHANGED <<knowledge_base, handled>>
    /\ UNCHANGED other_callers

\* no node qualifies: the pass returns
ExpandReturn ==
    /\ pc = "expand"
    /\ find_first_node_to_expand(knowledge_base, 1, expanded_nodes) = 0
    /\ pc' = "idle"
    /\ expand_result' = "returned"
    /\ UNCHANGED <<knowledge_base, caller, handled, passes, batch_vars, expanded_nodes,
                   forward_result, failed_intents, dropped, filed, only_create, exp, handed>>
    /\ UNCHANGED other_callers

\* _expand_node on the first qualifying node, up to its call of the
\* insertion module, for one answer of the ExpandSection collaborator
ExpandNode(lines) ==
    /\ pc = "expand"
    /\ LET node == find_first_node_to_expand(knowledge_base, 1, expanded_nodes)
           subsection_names == get_expand_subnode_names(lines, knowledge_base.name[node])
           r == insert_subsections(knowledge_base, subsection_names, node)
           attempt == [phase |-> "split", node |-> node, before |-> knowledge_base,
                       answered |-> TRUE, proposed |-> lines,
                       new_children |-> (Len(knowledge_base.name) + 1)..Len(r.kb.name)]
           information_list == original_cited_information(knowledge_base, node)
       IN /\ node # 0
          /\ Len(knowledge_base.name) + Len(subsection_names) <= MaxNodes
          /\ handed' = Append(handed, node)
          /\ IF ExpansionSkipped(subsection_names)
             THEN /\ expanded_nodes' = Append(expanded_nodes, node)
                  /\ exp' = [attempt EXCEPT !.phase = "unsplit"]
                  /\ UNCHANGED <<knowledge_base, pc, caller, batch_vars, forward_result,
                                 expand_result, failed_intents>>
             ELSE IF r.raised
             THEN /\ knowledge_base' = r.kb
                  /\ pc' = "idle"
                  /\ expand_result' = "raised"
                  /\ exp' = [attempt EXCEPT !.phase = "failed"]
                  /\ UNCHANGED <<caller, batch_vars, expanded_nodes, forward_result,
                                 failed_intents>>
             ELSE /\ knowledge_base' = [r.kb EXCEPT !.content[node] = {}]
                  /\ information' = information_list
                  /\ allow_create_new_node' = FALSE
                  /\ insert_root' = node
                  /\ skip_candidate_from_embedding' = FALSE
                  /\ intent_to_placement_dict' = info_list_to_intent_mapping(information_list)
                  /\ decided' = {}
                  /\ to_return' = <<>>
                  /\ failed_intents' = {}
                  /\ caller' = "expand"
                  /\ pc' = "embed"
                  /\ forward_result' = "running"
                  /\ exp' = attempt
                  /\ UNCHANGED <<expanded_nodes, expand_result>>
    /\ UNCHANGED <<handled, passes, dropped, filed, only_create>>
    /\ UNCHANGED other_callers

\* the ExpandSection collaborator fails inside _get_expand_subnode_names
ExpandNodeRaises ==
    /\ pc = "expand"
    /\ LET node == find_first_node_to_expand(knowledge_base, 1, expanded_nodes)
       IN /\ node # 0
          /\ handed' = Append(handed, node)
          /\ exp' = [phase |-> "failed", node |-> node, before |-> knowledge_base,
                     answered |-> FALSE, proposed |-> <<>>, new_children |-> {}]
    /\ pc' = "idle"
    /\ expand_result' = "raised"
    /\ UNCHANGED <<knowledge_base, caller, handled, passes, batch_vars, expanded_nodes,
                   forward_result, failed_intents, dropped, filed, only_create>>
    /\ UNCHANGED other_callers

Next ==
    \/ \E information_list \in Batches, allow \in BOOLEAN, skip \in BOOLEAN :
          Forward(information_list, allow, 1, skip)
    \/ StructureEmbedding
    \/ StructureEmbeddingRaises
    \/ \E intent \in Questions \X Queries : DecideParallel(intent)
    \/ DecideSequential
    \/ DecideSequentialRaises
    \/ Apply
    \/ ForwardReturn
    \/ ExpandForward
    \/ ExpandReturn
    \/ \E lines \in BoundedSeq(RawLines, MaxLines) : ExpandNode(lines)
    \/ ExpandNodeRaises

Spec == Init /\ [][Next]_vars

\* ------------------------------------- expansion passes on a filled tree
\* The trees an expansion pass may find after any number of insertions: a
\* root alone, with one child, with two children, or with a child and a
\* grandchild; every node holds none, one or both of two registered ids.
TreeShapes ==
    {[name |-> <<"root">>, parent |-> <<0>>, children |-> << <<>> >>],
     [name |-> <<"root", "A">>, parent |-> <<0, 1>>, children |-> << <<2>>, <<>> >>],
     [name |-> <<"root", "A", "B">>, parent |-> <<0, 1, 1>>,
      children |-> << <<2, 3>>, <<>>, <<>> >>],
     [name |-> <<"root", "A", "B">>, parent |-> <<0, 1, 2>>,
      children |-> << <<2>>, <<3>>, <<>> >>]}

NodeContents == {{}, {1}, {1, 2}}

RegisteredInformation ==
    <<[url |-> "u1", question |-> "q1", query |-> "x"],
      [url |-> "u1", question |-> "q2", query |-> "x"]>>

FilledTrees ==
    {[name |-> shape.name, parent |-> shape.parent, children |-> shape.children,
      content |-> content,
      synthesize_output |-> [n \in 1..Len(shape.name) |-> <<>>],
      need_regenerate_synthesize_output |-> [n \in 1..Len(shape.name) |-> TRUE],
      info |-> RegisteredInformation]
     : shape \in TreeShapes,
       content \in UNION {[1..k -> NodeContents] : k \in 1..3}}

InitFilled ==
    /\ knowledge_base \in {kb \in FilledTrees : Len(kb.content) = Len(kb.name)}
    /\ last_call = NoCall
    /\ threads = [t \in Threads |-> NoThread]
    /\ warmstart = NoWarmStart
    /\ pc = "idle"
    /\ caller = "user"
    /\ handled = 0
    /\ passes = 0
    /\ information = <<>>
    /\ allow_create_new_node = FALSE
    /\ insert_root = 1
    /\ skip_candidate_from_embedding = FALSE
    /\ intent_to_placement_dict = <<>>
    /\ decided = {}
    /\ to_return = <<>>
    /\ expanded_nodes = <<>>
    /\ forward_result = "none"
    /\ expand_result = "none"
    /\ failed_intents = {}
    /\ dropped = {}
    /\ filed = {}
    /\ only_create = FALSE
    /\ exp = NoExp
    /\ handed = <<>>

\* ExpandNodeModule.forward and the batch insertion _expand_node calls
NextExpand ==
    \/ ExpandForward
    \/ ExpandReturn
    \/ \E lines \in BoundedSeq(RawLines, MaxLines) : ExpandNode(lines)
    \/ ExpandNodeRaises
    \/ StructureEmbedding
    \/ StructureEmbeddingRaises
    \/ \E intent \in Questions \X Queries : DecideParallel(intent)
    \/ Apply
    \/ ForwardReturn

SpecExpand == InitFilled /\ [][NextExpand]_vars

\* ------------------------------------------- direct KnowledgeBase callers
\* names of the nodes a direct caller names
NodeNames == {"A", "B"}

\* the Information a direct caller inserts: one url per intent
CallerInformation == {i \in Information : i.url = "u1"}

\* the paths a caller hands to insert_information for an insertion root
PathsFrom(kb, root) ==
    {<<kb.name[root]>> \o rest : rest \in {<<>>, <<"A">>, <<"B">>, <<"A", "B">>}}

\* knowledge_base.insert_information(path, information, missing_node_handling, root)
KbInsertInformation(path, info, missing_node_handling, root) ==
    /\ last_call.op \notin {"reorganizing", "reporting"}
    /\ handled < MaxHandled
    /\ LET r == insert_information(knowledge_base, path, info, missing_node_handling, root)
       IN /\ Len(r.kb.name) <= MaxNodes
          /\ knowledge_base' = r.kb
          /\ last_call' = [NoCall EXCEPT !.op = "insert_information", !.path = path,
                                         !.root = root,
                                         !.missing_node_handling = missing_node_handling,
                                         !.raised = r.raised, !.segment = r.segment]
    /\ handled' = handled + 1
    /\ UNCHANGED <<module_vars, threads>>

\* knowledge_base.insert_node(new_node_name, parent_node)
KbInsertNode(new_node_name, parent_node) ==
    /\ last_call.op \notin {"reorganizing", "reporting"}
    /\ Len(knowledge_base.name) < MaxNodes
    /\ LET r == insert_node(knowledge_base, new_node_name, parent_node)
       IN /\ knowledge_base' = r.kb
          /\ last_call' = [NoCall EXCEPT !.op = "insert_node", !.path = <<new_node_name>>,
                                         !.root = parent_node, !.raised = r.raised]
    /\ UNCHANGED <<handled, module_vars, threads>>

\* ------------------------------------------------ ArticleGenerationModule
\* shapes of the section writer's answer: the text alone, or the text under
\* a first line that repeats the section name
SectionAnswers == {"plain", "titled"}

\* a line of section text: its words, and the ids of the Information the
\* writer was given when it wrote the line
Line(text, cites) == [text |-> text, cites |-> cites]

\* the section writer's answer for a section name and the information string
\* of the ids in all_citation_index
write_section(section, all_citation_index, answer) ==
    IF answer = "titled"
    THEN <<Line(section, {}), Line("text", all_citation_index)>>
    ELSE <<Line("text", all_citation_index)>>

\* the lines of "\n".join(lines): joining no line gives the empty string,
\* which has one empty line
JoinLines(lines) == IF lines = <<>> THEN <<Line("", {})>> ELSE lines

CacheUsableWhenPresent(kb, node) == kb.synthesize_output[node] # <<>>

\* gen_section returns the cached text when there is one and it is not stale
CacheUsable(kb, node) ==
    /\ kb.synthesize_output[node] # <<>>
    /\ ~kb.need_regenerate_synthesize_output[node]

\* gen_section: the text returned, as lines, and the node's cache afterwards
gen_section(kb, node, answer) ==
    IF kb.content[node] = {}
    THEN [text |-> <<Line("", {})>>, synthesize_output |-> kb.synthesize_output[node],
          need_regenerate_synthesize_output |-> kb.need_regenerate_synthesize_output[node]]
    ELSE IF CacheUsable(kb, node)
    THEN [text |-> kb.synthesize_output[node],
          synthesize_output |-> kb.synthesize_output[node],
          need_regenerate_synthesize_output |-> kb.need_regenerate_synthesize_output[node]]
    ELSE LET all_citation_index == collect_all_content(kb, node)
             synthesize_output == write_section(kb.name[node], all_citation_index, answer)
         IN [text |-> synthesize_output,
             synthesize_output |-> synthesize_output,
             need_regenerate_synthesize_output |-> FALSE]

\* _node_generate_paragraph: a first line equal to the node's name is dropped
node_generate_paragraph(kb, node, answer) ==
    LET lines == gen_section(kb, node, answer).text
    IN JoinLines(IF Head(lines).text = kb.name[node] THEN Tail(lines) ELSE lines)

\* the key of node_to_paragraph for a node: " -> ".join(node.get_path_from_root())
ParagraphKey(kb, n) == JoinPath(get_path_from_root(kb, n, 1))

\* node_to_paragraph, keyed by the joined path of the node
node_to_paragraph(kb, answer) ==
    [path \in {ParagraphKey(kb, n) : n \in Nodes(kb)} |->
        node_generate_paragraph(
            kb, CHOOSE n \in Nodes(kb) : ParagraphKey(kb, n) = path, answer)]

\* helper(cur_root, level): one entry "#" * level + name + "\n" + paragraph
\* for cur_root, then the entries of its children in order
RECURSIVE helper(_, _, _, _)
helper(kb, paragraphs, cur_root, level) ==
    <<[level |-> level, name |-> kb.name[cur_root],
       paragraph |-> paragraphs[ParagraphKey(kb, cur_root)],
       node |-> cur_root]>>
    \o Flatten([i \in 1..Len(kb.children[cur_root]) |->
                   helper(kb, paragraphs, kb.children[cur_root][i], level + 1)])

\* to_return: the entries of the children of the root, at level 1
report_sections(kb, paragraphs) ==
    Flatten([i \in 1..Len(kb.children[1]) |->
                helper(kb, paragraphs, kb.children[1][i], 1)])

\* the report, when every section is generated from the same knowledge base
article(kb, answer) == report_sections(kb, node_to_paragraph(kb, answer))

\* gen_section replaces a text it had cached for the node
Rewrites(kb, node) ==
    /\ kb.content[node] # {}
    /\ kb.synthesize_output[node] # <<>>
    /\ ~CacheUsable(kb, node)

\* ArticleGenerationModule.forward(knowledge_base)
ArticleForward(answer) ==
    /\ last_call.op # "reorganizing"
    /\ last_call' = [NoCall EXCEPT !.op = "report", !.answer = answer,
                                   !.report = article(knowledge_base, answer),
                                   !.rewritten = {n \in Nodes(knowledge_base) :
                                                     Rewrites(knowledge_base, n)}]
    /\ knowledge_base' =
          [knowledge_base EXCEPT
              !.synthesize_output =
                  [n \in Nodes(knowledge_base) |->
                      gen_section(knowledge_base, n, answer).synthesize_output],
              !.need_regenerate_synthesize_output =
                  [n \in Nodes(knowledge_base) |->
                      gen_section(knowledge_base, n, answer).need_regenerate_synthesize_output]]
    /\ UNCHANGED <<handled, module_vars, threads>>

\* ------------------------------------------------------------ reorganize
\* node b, which has no children, leaves the tree; the nodes after it move up
remove_node(kb, b) ==
    LET old(i) == IF i < b THEN i ELSE i + 1
        new(n) == IF n < b THEN n ELSE n - 1
        rest == 1..(Len(kb.name) - 1)
        kept(n) == SelectSeq(kb.children[n], LAMBDA c : c # b)
    IN [name |-> [i \in rest |-> kb.name[old(i)]],
        parent |-> [i \in rest |-> new(kb.parent[old(i)])],
        children |-> [i \in rest |-> [k \in 1..Len(kept(old(i))) |-> new(kept(old(i))[k])]],
        content |-> [i \in rest |-> kb.content[old(i)]],
        synthesize_output |-> [i \in rest |-> kb.synthesize_output[old(i)]],
        need_regenerate_synthesize_output |->
            [i \in rest |-> kb.need_regenerate_synthesize_output[old(i)]],
        info |-> kb.info]

merge_nodes_dropping_content(kb, a, b) ==
    remove_node([kb EXCEPT !.children[a] = @ \o kb.children[b],
                           !.children[b] = <<>>,
                           !.parent = [n \in Nodes(kb) |-> IF kb.parent[n] = b THEN a
                                                           ELSE kb.parent[n]]], b)

\* sibling b is merged into sibling a: a takes over b's content and children
merge_nodes(kb, a, b) ==
    remove_node([kb EXCEPT !.content[a] = @ \cup kb.content[b],
                           !.need_regenerate_synthesize_output[a] = TRUE,
                           !.children[a] = @ \o kb.children[b],
                           !.children[b] = <<>>,
                           !.parent = [n \in Nodes(kb) |-> IF kb.parent[n] = b THEN a
                                                           ELSE kb.parent[n]]], b)

\* children k and k + 1 of node n change places
swap_children(kb, n, k) ==
    [kb EXCEPT !.children[n] = [i \in 1..Len(@) |-> IF i = k THEN @[k + 1]
                                                     ELSE IF i = k + 1 THEN @[k] ELSE @[i]]]

\* knowledge_base.reorganize() is called
ReorganizeBegin ==
    /\ last_call.op # "reorganizing"
    /\ last_call' = [NoCall EXCEPT !.op = "reorganizing",
                                   !.before = collect_all_content(knowledge_base, 1)]
    /\ UNCHANGED <<knowledge_base, handled, module_vars, threads>>

\* reorganize merges two siblings the collaborator takes for duplicates
ReorganizeMerge(a, b) ==
    /\ last_call.op = "reorganizing"
    /\ a # b
    /\ knowledge_base.parent[a] # 0
    /\ knowledge_base.parent[a] = knowledge_base.parent[b]
    /\ \A i \in 1..Len(knowledge_base.children[a]), j \in 1..Len(knowledge_base.children[b]) :
          knowledge_base.name[knowledge_base.children[a][i]]
             # knowledge_base.name[knowledge_base.children[b][j]]
    /\ knowledge_base' = merge_nodes(knowledge_base, a, b)
    /\ last_call' = [last_call EXCEPT !.merged = @ \/ knowledge_base.content[b] # {}]
    /\ UNCHANGED <<handled, module_vars, threads>>

\* reorganize drops an empty node
ReorganizeDrop(n) ==
    /\ last_call.op = "reorganizing"
    /\ n # 1
    /\ knowledge_base.content[n] = {}
    /\ knowledge_base.children[n] = <<>>
    /\ knowledge_base' = remove_node(knowledge_base, n)
    /\ UNCHANGED <<last_call, handled, module_vars, threads>>

\* reorganize re-sorts the children of a node
ReorganizeSort(n, k) ==
    /\ last_call.op = "reorganizing"
    /\ k < Len(knowledge_base.children[n])
    /\ knowledge_base.name[knowledge_base.children[n][k]]
          # knowledge_base.name[knowledge_base.children[n][k + 1]]
    /\ knowledge_base' = swap_children(knowledge_base, n, k)
    /\ last_call' = [last_call EXCEPT !.op = "reorganize"]
    /\ UNCHANGED <<handled, module_vars, threads>>

\* reorganize returns
ReorganizeReturn ==
    /\ last_call.op = "reorganizing"
    /\ last_call' = [last_call EXCEPT !.op = "reorganize"]
    /\ UNCHANGED <<knowledge_base, handled, module_vars, threads>>

NextKB ==
    \/ \E root \in {1}, info \in CallerInformation,
          missing_node_handling \in {"raise error", "create"} :
          \E path \in PathsFrom(knowledge_base, root) :
             KbInsertInformation(path, info, missing_node_handling, root)
    \/ \E new_node_name \in NodeNames, parent_node \in {1} :
          KbInsertNode(new_node_name, parent_node)
    \/ \E answer \in SectionAnswers : ArticleForward(answer)
    \/ ReorganizeBegin
    \/ \E a, b \in Nodes(knowledge_base) : ReorganizeMerge(a, b)
    \/ \E n \in Nodes(knowledge_base) : ReorganizeDrop(n)
    \/ \E n \in Nodes(knowledge_base), k \in 1..MaxNodes : ReorganizeSort(n, k)
    \/ ReorganizeReturn

SpecKB == Init /\ [][NextKB]_vars

\* ------------------------------------- the worker threads of the report
\* ArticleGenerationModule.forward is entered: one _node_generate_paragraph
\* is submitted to the thread pool for every node of collect_all_nodes()
ArticleForwardBegin(answer) ==
    /\ last_call.op \notin {"reorganizing", "reporting"}
    /\ last_call' = [NoCall EXCEPT !.op = "reporting", !.answer = answer,
                                   !.pending = Nodes(knowledge_base),
                                   !.started = knowledge_base]
    /\ UNCHANGED <<knowledge_base, handled, module_vars, threads>>

\* the future of node n completes, in whatever order: gen_section has set the
\* node's cache and node_to_paragraph[path] is assigned
NodeGenerateParagraph(n) ==
    /\ last_call.op = "reporting"
    /\ n \in last_call.pending
    /\ LET g == gen_section(knowledge_base, n, last_call.answer)
           path == ParagraphKey(knowledge_base, n)
           node_gen_paragraph == node_generate_paragraph(knowledge_base, n, last_call.answer)
       IN /\ knowledge_base' =
                [knowledge_base EXCEPT
                    !.synthesize_output[n] = g.synthesize_output,
                    !.need_regenerate_synthesize_output[n] =
                        g.need_regenerate_synthesize_output]
          /\ last_call' =
                [last_call EXCEPT
                    !.pending = @ \ {n},
                    !.node_to_paragraph =
                        [k \in (DOMAIN @) \cup {path} |->
                            IF k = path THEN node_gen_paragraph ELSE @[k]]]
    /\ UNCHANGED <<handled, module_vars, threads>>

\* every future has completed: helper builds the report and forward returns
ArticleForwardReturn ==
    /\ last_call.op = "reporting"
    /\ last_call.pending = {}
    /\ last_call' = [last_call EXCEPT
                        !.op = "report",
                        !.report = report_sections(knowledge_base,
                                                   last_call.node_to_paragraph)]
    /\ UNCHANGED <<knowledge_base, handled, module_vars, threads>>

NextReport ==
    \/ \E root \in {1}, info \in CallerInformation,
          missing_node_handling \in {"raise error", "create"} :
          \E path \in PathsFrom(knowledge_base, root) :
             KbInsertInformation(path, info, missing_node_handling, root)
    \/ \E new_node_name \in NodeNames, parent_node \in {1} :
          KbInsertNode(new_node_name, parent_node)
    \/ \E answer \in SectionAnswers : ArticleForwardBegin(answer)
    \/ \E n \in Nodes(knowledge_base) : NodeGenerateParagraph(n)
    \/ ArticleForwardReturn

SpecReport == Init /\ [][NextReport]_vars

\* ------------------------------------------------ the embedding shortcut
\* values of the top_N_candidates parameter
MaxTopN == 2

\* _get_sorted_embed_sim_section: the outlines in some order of similarity
SortedOutlines(outlines) ==
    {f \in [1..Cardinality(outlines) -> outlines] :
        \A i, j \in 1..Cardinality(outlines) : f[i] = f[j] => i = j}

\* what _parse_selected_index can make of the chooser's decision: a number,
\* or 0 for None and for a decision without the hint
SelectedIndexes == 0..(MaxNodes + 1)

\* considered_candidates: the candidates shown to the chooser, numbered from 1
considered_candidates(sorted_candidates, top_N_candidates) ==
    SubSeq(sorted_candidates, 1,
           IF Len(sorted_candidates) < top_N_candidates
           THEN Len(sorted_candidates) ELSE top_N_candidates)

\* lines 226-236: the candidate the answered number selects, None when it
\* selects none; parsed is the parsed number, 0 when there is none
selected_candidate(sorted_candidates, top_N_candidates, parsed) ==
    IF parsed = 0 THEN None
    ELSE LET selected_index == parsed - 1
         IN IF selected_index < Len(sorted_candidates) /\ selected_index >= 0
            THEN Prediction(sorted_candidates[selected_index + 1])
            ELSE None

\* choose_candidate_from_embedding_ranking is called with a ranking of the
\* outlines of the knowledge base and the chooser answers
ChooseCandidate(sorted_candidates, top_N_candidates, parsed) ==
    /\ last_call' = [NoCall EXCEPT
                        !.op = "choose_candidate",
                        !.sorted_candidates = sorted_candidates,
                        !.top_N_candidates = top_N_candidates,
                        !.selected_index = parsed,
                        !.placement = selected_candidate(sorted_candidates,
                                                         top_N_candidates, parsed)]
    /\ UNCHANGED <<knowledge_base, handled, module_vars, threads>>

NextChoose ==
    \/ \E new_node_name \in NodeNames, parent_node \in {1, 2} \cap Nodes(knowledge_base) :
          KbInsertNode(new_node_name, parent_node)
    \/ \E sorted_candidates \in SortedOutlines(Outlines(knowledge_base, 1)),
          top_N_candidates \in 1..MaxTopN, parsed \in SelectedIndexes :
          ChooseCandidate(sorted_candidates, top_N_candidates, parsed)

SpecChoose == Init /\ [][NextChoose]_vars

\* ------------------------------------------------ WarmStartConversation
\* forward: the experts are generated and one process_expert is submitted
\* for each of experts[: min(len(experts), max_num_experts)]
WarmStartForward(experts) ==
    /\ warmstart.pc = "idle"
    /\ warmstart' = [NoWarmStart EXCEPT
                        !.pc = "running",
                        !.experts = experts,
                        !.worker = [e \in Workers |->
                                       IF e <= experts
                                       THEN [NoWorker EXCEPT !.pc = "turn"]
                                       ELSE NoWorker]]
    /\ UNCHANGED <<knowledge_base, handled, insertion_vars, last_call, threads>>

\* a step of one process_expert thread while forward waits on the futures
WorkerStep ==
    /\ warmstart.pc = "running"
    /\ UNCHANGED <<knowledge_base, handled, insertion_vars, last_call, threads>>

\* a lock that never excludes
LockIgnored(lock) == TRUE

\* "with lock:" is entered when no thread holds the lock
LockFree(lock) == lock = 0

\* lines 224-227: the history string is formatted under the lock
TurnFormatHistory(e) ==
    /\ warmstart.worker[e].pc = "turn"
    /\ warmstart.worker[e].idx < max_turn_per_experts
    /\ LockFree(warmstart.lock)
    /\ warmstart' = [warmstart EXCEPT !.worker[e].pc = "asking"]
    /\ WorkerStep

\* lines 228-263 raise (question asking, answering or the callback): the
\* except clause of the turn prints the error and the loop goes on
TurnRaises(e) ==
    /\ warmstart.worker[e].pc = "asking"
    /\ warmstart' = [warmstart EXCEPT
                        !.worker[e].pc = "turn",
                        !.worker[e].idx = @ + 1,
                        !.failed = @ \cup {[role |-> e, turn |-> warmstart.worker[e].idx + 1]}]
    /\ WorkerStep

\* line 264: the lock is taken for the append, which reads the list
TurnLock(e) ==
    /\ warmstart.worker[e].pc = "asking"
    /\ LockFree(warmstart.lock)
    /\ warmstart' = [warmstart EXCEPT
                        !.worker[e].pc = "appending",
                        !.worker[e].local = warmstart.conversation_history,
                        !.lock = e]
    /\ WorkerStep

\* line 265: the turn is appended and the lock released
TurnAppend(e) ==
    /\ warmstart.worker[e].pc = "appending"
    /\ LET conversation_turn == [role |-> e, turn |-> warmstart.worker[e].idx + 1]
       IN warmstart' = [warmstart EXCEPT
                           !.conversation_history =
                               Append(warmstart.worker[e].local, conversation_turn),
                           !.lock = IF @ = e THEN 0 ELSE @,
                           !.worker[e].pc = "turn",
                           !.worker[e].idx = @ + 1,
                           !.worker[e].local = <<>>,
                           !.completed = @ \cup {conversation_turn}]
    /\ WorkerStep

\* every future is done: the background turn is put in front and forward returns
WarmStartReturn ==
    /\ warmstart.pc = "running"
    /\ \A e \in Workers :
          warmstart.worker[e].pc = "none"
          \/ (warmstart.worker[e].pc = "turn"
              /\ warmstart.worker[e].idx = max_turn_per_experts)
    /\ warmstart' = [warmstart EXCEPT
                        !.pc = "returned",
                        !.conversation_history = <<BackgroundTurn>> \o @]
    /\ UNCHANGED <<knowledge_base, handled, insertion_vars, last_call, threads>>

NextWarmStart ==
    \/ \E experts \in 0..MaxExperts : WarmStartForward(experts)
    \/ \E e \in Workers : TurnFormatHistory(e)
    \/ \E e \in Workers : TurnRaises(e)
    \/ \E e \in Workers : TurnLock(e)
    \/ \E e \in Workers : TurnAppend(e)
    \/ WarmStartReturn

SpecWarmStart == Init /\ [][NextWarmStart]_vars

\* ------------------------------------------------- conversation threads
\* Two conversation threads call InsertInformationModule.forward on the same
\* knowledge base with the default insert_root (the tree root) and the
\* default skip_candidate_from_embedding (False). The module takes no lock.

SetThread(t, record) ==
    /\ threads' = [threads EXCEPT ![t] = record]
    /\ UNCHANGED <<module_vars, last_call>>

\* forward is entered: lines 257-259
ThreadForward(t, information_list, allow) ==
    /\ threads[t].pc = "idle"
    /\ handled + Len(information_list) <= MaxHandled
    /\ handled' = handled + Len(information_list)
    /\ SetThread(t, [NoThread EXCEPT
                        !.pc = "embed",
                        !.information = information_list,
                        !.allow_create_new_node = allow,
                        !.intent_to_placement_dict =
                            info_list_to_intent_mapping(information_list),
                        !.result = "running"])
    /\ UNCHANGED knowledge_base

\* get_knowledge_base_structure_embedding(root=insert_root) returns: lines 298-301
ThreadStructureEmbedding(t) ==
    /\ threads[t].pc = "embed"
    /\ SetThread(t, [threads[t] EXCEPT !.pc = "batch",
                                       !.outlines = Outlines(knowledge_base, 1)])
    /\ UNCHANGED <<knowledge_base, handled>>

\* the nodes the decided, not yet applied placements of all threads will create
ThreadsPendingNewNodes ==
    LET need(t, intent) ==
            IF intent \in DOMAIN threads[t].intent_to_placement_dict
               /\ threads[t].intent_to_placement_dict[intent].found
               /\ threads[t].allow_create_new_node
            THEN NewNodesNeeded(knowledge_base, 1,
                                threads[t].intent_to_placement_dict[intent].path)
            ELSE 0
        RECURSIVE sum(_)
        sum(S) == IF S = {} THEN 0
                  ELSE LET x == CHOOSE y \in S : TRUE IN need(x[1], x[2]) + sum(S \ {x})
    IN sum(Threads \X (Questions \X Queries))

\* the intent whose process_intent may start: any undecided one in the
\* thread pool (lines 305-309), the next of the dict in the sequential loop
\* (lines 323-330)
MayStart(t, intent) ==
    LET th == threads[t]
        order == IntentOrder(th.information)
    IN /\ intent \in DOMAIN th.intent_to_placement_dict
       /\ intent \notin th.decided \cup th.reading
       /\ th.allow_create_new_node =>
             /\ th.reading = {}
             /\ intent = order[Min({i \in 1..Len(order) : order[i] \notin th.decided})]

\* process_intent starts for one intent: from here to its end it reads the
\* outlines and walks the tree between collaborator calls
ThreadProcessIntentBegin(t, intent) ==
    /\ threads[t].pc = "batch"
    /\ MayStart(t, intent)
    /\ SetThread(t, [threads[t] EXCEPT
                        !.reading = @ \cup {intent},
                        !.outlines = IF threads[t].allow_create_new_node
                                     THEN Outlines(knowledge_base, 1) ELSE @])
    /\ UNCHANGED <<knowledge_base, handled>>

\* process_intent returns and its result is stored in intent_to_placement_dict
ThreadProcessIntentEnd(t, intent) ==
    /\ threads[t].pc = "batch"
    /\ intent \in threads[t].reading
    /\ \E outcome \in process_intent(knowledge_base, threads[t].allow_create_new_node, 1,
                                     FALSE, threads[t].outlines) :
          /\ outcome.prediction.found /\ threads[t].allow_create_new_node =>
                Len(knowledge_base.name) + ThreadsPendingNewNodes
                + NewNodesNeeded(knowledge_base, 1, outcome.prediction.path) <= MaxNodes
          /\ SetThread(t, [threads[t] EXCEPT
                              !.reading = @ \ {intent},
                              !.decided = @ \cup {intent},
                              !.intent_to_placement_dict[intent] = outcome.prediction])
    /\ UNCHANGED <<knowledge_base, handled>>

\* get_path_from_root fails with StructuralError inside the navigation of one
\* intent: "except Exception" of process_intent (lines 282-284) turns it
\* into None
ThreadProcessIntentStructuralError(t, intent) ==
    /\ threads[t].pc = "batch"
    /\ intent \in threads[t].reading
    /\ SetThread(t, [threads[t] EXCEPT
                        !.reading = @ \ {intent},
                        !.decided = @ \cup {intent},
                        !.intent_to_placement_dict[intent] = None,
                        !.structural = @ \cup {intent}])
    /\ UNCHANGED <<knowledge_base, handled>>

\* back mapping: insert_info_to_kb for the next Information of the batch
ThreadApply(t) ==
    /\ threads[t].pc = "batch"
    /\ AllFuturesCompleted(DOMAIN threads[t].intent_to_placement_dict, threads[t].decided)
    /\ Len(threads[t].to_return) < Len(threads[t].information)
    /\ LET info == threads[t].information[Len(threads[t].to_return) + 1]
           placement_prediction == threads[t].intent_to_placement_dict[IntentOf(info)]
           missing_node_handling == SelectMissingNodeHandling(threads[t].allow_create_new_node)
           r == insert_information(knowledge_base, placement_prediction.path, info,
                                   missing_node_handling, 1)
       IN IF ~placement_prediction.found
          THEN /\ SetThread(t, [threads[t] EXCEPT
                                   !.to_return = Append(@, <<info, placement_prediction>>)])
               /\ UNCHANGED knowledge_base
          ELSE IF r.raised
          THEN /\ knowledge_base' = r.kb
               /\ SetThread(t, [threads[t] EXCEPT !.pc = "idle", !.result = "raised"])
          ELSE /\ knowledge_base' = r.kb
               /\ SetThread(t, [threads[t] EXCEPT
                                   !.to_return = Append(@, <<info, placement_prediction>>)])
    /\ UNCHANGED handled

\* return to_return
ThreadReturn(t) ==
    /\ threads[t].pc = "batch"
    /\ AllFuturesCompleted(DOMAIN threads[t].intent_to_placement_dict, threads[t].decided)
    /\ Len(threads[t].to_return) = Len(threads[t].information)
    /\ SetThread(t, [threads[t] EXCEPT !.pc = "idle", !.result = "returned"])
    /\ UNCHANGED <<knowledge_base, handled>>

NextThreads ==
    \E t \in Threads :
        \/ \E information_list \in Batches, allow \in BOOLEAN :
              ThreadForward(t, information_list, allow)
        \/ ThreadStructureEmbedding(t)
        \/ \E intent \in Questions \X Queries : ThreadProcessIntentBegin(t, intent)
        \/ \E intent \in Questions \X Queries : ThreadProcessIntentEnd(t, intent)
        \/ \E intent \in Questions \X Queries : ThreadProcessIntentStructuralError(t, intent)
        \/ ThreadApply(t)
        \/ ThreadReturn(t)

SpecThreads == Init /\ [][NextThreads]_vars


\* ------------------------------------------------------------------ claims
RegisteredIds == 1..Len(knowledge_base.info)

\* ids of Information that got no placement and was never filed
DroppedIds ==
    {InfoId(knowledge_base, d) : d \in {x \in dropped : IsRegistered(knowledge_base, x)}}
    \ filed

\* the node at which a placement path ends in the current tree, 0 when it
\* does not resolve
ResolvedNode(path) ==
    find_node_by_path(knowledge_base, insert_root, Tail(path), "raise error").node

\* Information number k of the batch sits at the node its intent's placement names
FiledAtPlacement(k) ==
    LET info == information[k]
        placement == intent_to_placement_dict[IntentOf(info)]
    IN /\ IntentOf(info) \in decided
       /\ placement.found
       /\ IsRegistered(knowledge_base, info)
       /\ ResolvedNode(placement.path) # 0
       /\ InfoId(knowledge_base, info) \in knowledge_base.content[ResolvedNode(placement.path)]

BatchEnded == forward_result \in {"returned", "raised"}

\* C1: as long as every call has been a batch insertion with node creation
\* enabled, the ids collect_all_content() reaches from the root are exactly
\* the registered ids minus those of dropped, never filed Information.
C1_CreateInsertionsKeepIdsReachable ==
    only_create => collect_all_content(knowledge_base, 1) = RegisteredIds \ DroppedIds

C1_Witness ==
    /\ only_create
    /\ pc = "idle"
    /\ forward_result = "returned"
    /\ dropped # {}
    /\ Len(knowledge_base.name) >= 3
    /\ \E n \in Nodes(knowledge_base) : n # 1 /\ knowledge_base.content[n] # {}

\* C2: a batch insertion call always returns normally; no exception reaches
\* the caller of InsertInformationModule.forward.
C2_ForwardAlwaysReturns == forward_result # "raised"

\* C3: when a collaborator call fails for one intent of a batch, every
\* Information of the batch whose intent had no failure is decided and filed
\* at the node its placement names.
C3_OtherIntentsFiled ==
    (BatchEnded /\ failed_intents # {}) =>
        \A k \in 1..Len(information) :
            IntentOf(information[k]) \notin failed_intents => FiledAtPlacement(k)

\* C4: with node creation enabled, when the placement of the next intent is
\* about to be decided, the Information of every intent decided before it has
\* been placed in the tree.
C4_PlacedBeforeNextDecision ==
    (pc = "batch" /\ allow_create_new_node
        /\ \E intent \in DOMAIN intent_to_placement_dict : intent \notin decided) =>
        \A k \in 1..Len(information) :
            (IntentOf(information[k]) \in decided
                /\ intent_to_placement_dict[IntentOf(information[k])].found)
            => FiledAtPlacement(k)

\* C5: with node creation disallowed, a placement decision changes neither
\* the tree nor the id map, and any step of the batch that changes them is
\* taken only when the placement of every intent of the batch is decided.
C5_MutationAfterAllDecisions ==
    [][(pc = "batch" /\ ~allow_create_new_node) =>
          /\ (decided' # decided => knowledge_base' = knowledge_base)
          /\ (knowledge_base' # knowledge_base =>
                 \A intent \in DOMAIN intent_to_placement_dict : intent \in decided)]_vars

C5_Witness ==
    /\ pc = "batch"
    /\ ~allow_create_new_node
    /\ caller = "user"
    /\ Cardinality(DOMAIN intent_to_placement_dict) = 2
    /\ Len(to_return) >= 1
    /\ to_return[1][2].found

\* C6: when _expand_node has split a node, collect_all_content(node) taken
\* before the expansion equals the union of collect_all_content(child) over
\* the newly created children.
C6_ExpansionPreservesContentAtChildren ==
    exp.phase = "done" =>
        collect_all_content(exp.before, exp.node)
        = UNION {collect_all_content(knowledge_base, c) : c \in exp.new_children}

\* C7: when _expand_node has split a node, every id that was in the node's
\* content is in the content of some node of the subtree rooted at that node.
C7_ExpansionLosesNoId ==
    exp.phase = "done" =>
        exp.before.content[exp.node] \subseteq collect_all_content(knowledge_base, exp.node)

\* C8: when the ExpandSection collaborator proposes at most one sub-node name
\* for the node handed to _expand_node, the attempt changes nothing: the
\* tree and the id map are as they were before it.
C8_SingleProposalLeavesNodeAlone ==
    (exp.answered /\ Len(exp.proposed) <= 1) =>
        /\ exp.phase = "unsplit"
        /\ knowledge_base = exp.before

C8_Witness ==
    /\ exp.answered
    /\ Len(exp.proposed) = 1
    /\ exp.phase = "unsplit"
    /\ Cardinality(knowledge_base.content[exp.node]) >= node_expansion_trigger_count

\* C9: during one call of ExpandNodeModule.forward no node is handed to
\* _expand_node twice.
C9_NodeHandedAtMostOnce ==
    \A i, j \in 1..Len(handed) : i # j => handed[i] # handed[j]

C9_Witness ==
    /\ expand_result = "returned"
    /\ Len(handed) >= 2
    /\ \E i \in 1..Len(handed) :
          Cardinality(knowledge_base.content[handed[i]]) >= node_expansion_trigger_count

\* C10: a failure while expanding one node does not stop the pass, and the
\* failing node keeps the content and the children it had before the attempt.
C10_FailureDoesNotStopPass ==
    exp.phase = "failed" =>
        /\ expand_result # "raised"
        /\ knowledge_base.content[exp.node] = exp.before.content[exp.node]
        /\ knowledge_base.children[exp.node] = exp.before.children[exp.node]

\* C11: registration is idempotent: no Information is held under two ids,
\* and the re-insertion of a node's registered Information at other paths
\* (the one _expand_node does) registers no new id and files only the ids
\* the first insertion assigned.
C11_RegistrationIdempotent ==
    /\ \A i, j \in RegisteredIds :
          knowledge_base.info[i] = knowledge_base.info[j] => i = j
    /\ exp.phase \in {"split", "done"} =>
          /\ knowledge_base.info = exp.before.info
          /\ collect_all_content(knowledge_base, exp.node)
                \subseteq collect_all_content(exp.before, exp.node)

C11_Witness ==
    /\ exp.phase = "done"
    /\ knowledge_base.info # <<>>
    /\ \E c \in exp.new_children : knowledge_base.content[c] # {}

\* The start nodes whose subtree holds n: n and the nodes up its parent chain.
RECURSIVE AncestorsOrSelf(_, _)
AncestorsOrSelf(kb, n) ==
    IF kb.parent[n] = 0 THEN {n} ELSE {n} \cup AncestorsOrSelf(kb, kb.parent[n])

\* C13: for every start node R and every node N of R's subtree, the path
\* N.get_path_from_root(R), joined into the placement an "insert" decision
\* of the navigation returns for N and walked from R by child names the way
\* insert_info_to_kb has it walked, ends at N.
C13_PathRoundTrip ==
    \A N \in Nodes(knowledge_base) : \A R \in AncestorsOrSelf(knowledge_base, N) :
        find_node_by_path(knowledge_base, R,
                          Tail(JoinPath(get_placement_path(knowledge_base, N, R))),
                          SelectMissingNodeHandling(FALSE)).node = N

C13_Witness ==
    \E N \in Nodes(knowledge_base) :
        /\ knowledge_base.parent[N] # 0
        /\ knowledge_base.parent[knowledge_base.parent[N]] # 0
        /\ knowledge_base.content[N] # {}
        /\ pc = "idle"

\* C14: every id in the content of any node is a key of the id map.
C14_ContentIdsRegistered ==
    \A n \in Nodes(knowledge_base) : knowledge_base.content[n] \subseteq RegisteredIds

C14_Witness ==
    /\ expand_result = "returned"
    /\ exp.phase = "done"
    /\ Cardinality(collect_all_content(knowledge_base, exp.node)) >= 2

\* the children lists and the parent references describe one tree rooted at
\* node 1 in which no two siblings have the same name
IsTreeWithUniqueSiblingNames(kb) ==
    /\ {n \in Nodes(kb) : kb.parent[n] = 0} = {1}
    /\ \A n \in Nodes(kb) : \A i \in 1..Len(kb.children[n]) :
          /\ kb.children[n][i] \in Nodes(kb)
          /\ kb.parent[kb.children[n][i]] = n
    /\ \A n \in Nodes(kb) \ {1} :
          Cardinality({i \in 1..Len(kb.children[kb.parent[n]]) :
                          kb.children[kb.parent[n]][i] = n}) = 1
    /\ \A n \in Nodes(kb) : 1 \in AncestorsOrSelf(kb, n)
    /\ \A n \in Nodes(kb) : \A i, j \in 1..Len(kb.children[n]) :
          kb.name[kb.children[n][i]] = kb.name[kb.children[n][j]] => i = j

\* C17: after any insertions and expansions the knowledge base is a tree
\* with one root, one parent per other node, no cycle, and no two children of
\* one node with the same name.
C17_TreeWithUniqueSiblingNames == IsTreeWithUniqueSiblingNames(knowledge_base)

C17_Witness ==
    /\ exp.phase = "failed"
    /\ exp.answered
    /\ forward_result = "none"
    /\ Len(knowledge_base.name) > Len(exp.before.name)

\* the tree of a knowledge base: its nodes, their names, links and content
TreeOf(kb) == <<kb.name, kb.parent, kb.children, kb.content>>

\* the first segment of a path that no walk from root by child names reaches
FirstUnmatchedSegment(kb, root, path) ==
    LET reached(k) == \E n \in Subtree(kb, root) :
                          get_path_from_root(kb, n, root) = SubSeq(path, 1, k)
    IN path[Min({k \in 1..Len(path) : ~reached(k)})]

\* C12: a call of insert_information with missing_node_handling =
\* "raise error" whose path has a segment that matches no child fails with
\* PathNotFoundError naming the first unmatched segment, and creates no node
\* and changes no node's content.
C12_RaiseErrorLeavesTreeUnmodified ==
    [][(last_call'.op = "insert_information"
        /\ last_call'.missing_node_handling = "raise error"
        /\ \A n \in Subtree(knowledge_base, last_call'.root) :
              get_path_from_root(knowledge_base, n, last_call'.root) # last_call'.path)
       => /\ last_call'.raised
          /\ last_call'.segment
                = FirstUnmatchedSegment(knowledge_base, last_call'.root, last_call'.path)
          /\ TreeOf(knowledge_base') = TreeOf(knowledge_base)]_vars

C12_Witness ==
    /\ last_call.op = "insert_information"
    /\ last_call.raised
    /\ Len(last_call.path) = 3
    /\ last_call.segment = last_call.path[3]
    /\ \E n \in Nodes(knowledge_base) : knowledge_base.content[n] # {}

C20_NoSectionWithoutContent ==
    last_call.op = "report" =>
        \A i \in 1..Len(last_call.report) :
            collect_all_content(knowledge_base, last_call.report[i].node) # {}

C16_NoTraversalDuringMutation ==
    [][knowledge_base' # knowledge_base =>
          \A t \in Threads : threads[t].reading = {}]_vars

\* C19: a StructuralError raised while a batch insertion decides a placement
\* reaches the caller: the intent is not recorded as decided with no
\* placement, and the call does not return normally.
C19_StructuralErrorPropagates ==
    \A t \in Threads :
        /\ \A intent \in threads[t].structural : intent \notin threads[t].decided
        /\ threads[t].structural # {} => threads[t].result # "returned"

\* the nodes below n, n included, in depth-first pre-order over children in
\* insertion order
RECURSIVE PreOrder(_, _)
PreOrder(kb, n) ==
    <<n>> \o Flatten([i \in 1..Len(kb.children[n]) |-> PreOrder(kb, kb.children[n][i])])

\* number of edges from the tree root down to n
RECURSIVE Depth(_, _)
Depth(kb, n) == IF kb.parent[n] = 0 THEN 0 ELSE 1 + Depth(kb, kb.parent[n])

\* the sections are those of the non-root nodes in pre-order, each at the
\* level of its depth
ReportInPreOrder ==
    /\ [i \in 1..Len(last_call.report) |-> last_call.report[i].node]
          = Tail(PreOrder(knowledge_base, 1))
    /\ \A i \in 1..Len(last_call.report) :
          last_call.report[i].level = Depth(knowledge_base, last_call.report[i].node)

\* the report is the one generated from the knowledge base as it was when
\* forward was entered, whatever the order of completion
ReportOrderIndependent ==
    last_call.report = article(last_call.started, last_call.answer)

\* the section writer has not been run for the root
RootNotSynthesized ==
    knowledge_base.synthesize_output[1] = last_call.started.synthesize_output[1]

\* C21: the report lists the sections of the non-root nodes in depth-first
\* pre-order following child insertion order, each at the heading level of
\* its depth, it is the same for every order in which the worker threads
\* complete, and the root is not synthesized.
C21_ReportOrderAndRootExcluded ==
    last_call.op = "report" =>
        /\ ReportInPreOrder
        /\ ReportOrderIndependent
        /\ RootNotSynthesized

\* order and determinism of the report, the root apart
ReportOrderAndDeterminism ==
    last_call.op = "report" => (ReportInPreOrder /\ ReportOrderIndependent)

\* node n is one _find_first_node_to_expand may return
Qualifies(kb, n, expanded) ==
    /\ ~InSeq(n, expanded)
    /\ Cardinality(kb.content[n]) >= node_expansion_trigger_count

\* the first element of a sequence of nodes that qualifies, 0 when none does
FirstQualifying(kb, nodes, expanded) ==
    LET idx == {i \in 1..Len(nodes) : Qualifies(kb, nodes[i], expanded)}
    IN IF idx = {} THEN 0 ELSE nodes[Min(idx)]

\* C22: from any root, _find_first_node_to_expand returns the first node in
\* depth-first pre-order (children in insertion order) whose content size is
\* at least the trigger count and that is not in the processed list, and
\* None (0) exactly when no node below that root is such a node.
C22_FirstQualifyingInPreOrder ==
    \A root \in Nodes(knowledge_base) :
        find_first_node_to_expand(knowledge_base, root, expanded_nodes)
            = FirstQualifying(knowledge_base, PreOrder(knowledge_base, root), expanded_nodes)

C22_Witness ==
    /\ pc = "expand"
    /\ Len(knowledge_base.name) >= 3
    /\ InSeq(1, expanded_nodes)
    /\ Cardinality(knowledge_base.content[1]) >= node_expansion_trigger_count
    /\ find_first_node_to_expand(knowledge_base, 1, expanded_nodes) = 2
    /\ Qualifies(knowledge_base, 3, expanded_nodes)

\* the nodes of a knowledge base, their names and their parent/child order
StructureOf(kb) == <<kb.name, kb.parent, kb.children>>

\* C23: while a batch insertion with node creation disallowed runs, no step
\* changes the nodes, their names or the parent/child order; every placement
\* the navigation can return names an existing node of the subtree of the
\* insertion root, the one of a "create" decision the node at which the
\* creation was attempted; and the Information is filed at the node its
\* placement names.
C23_NoCreationLeavesStructure ==
    [][(pc \in {"embed", "batch"} /\ ~allow_create_new_node) =>
          /\ StructureOf(knowledge_base') = StructureOf(knowledge_base)
          /\ \A o \in layer_by_layer_navigation_placement(
                          knowledge_base, insert_root, FALSE, insert_root) :
                ~o.raised =>
                   /\ ResolvedNode(o.prediction.path) \in Subtree(knowledge_base, insert_root)
                   /\ o.action_type = "create" =>
                         ResolvedNode(o.prediction.path) = o.current_node
          /\ Len(to_return') > Len(to_return) =>
                LET info == to_return'[Len(to_return')][1]
                    placement == to_return'[Len(to_return')][2]
                IN placement.found =>
                      InfoId(knowledge_base', info)
                         \in knowledge_base'.content[ResolvedNode(placement.path)]]_vars

C23_Witness ==
    /\ pc = "batch"
    /\ ~allow_create_new_node
    /\ insert_root # 1
    /\ Len(to_return) = 2
    /\ \E n \in Subtree(knowledge_base, insert_root) \ {insert_root} :
          knowledge_base.content[n] # {}

\* the node at which a placement path ends in the tree after the step
ResolvedNodeAfter(path) ==
    find_node_by_path(knowledge_base', insert_root, Tail(path), "raise error").node

\* C24: within one batch there is one placement slot per distinct
\* (question, query) pair, a slot is decided once and not changed after, all
\* Information of the batch with the same pair gets the same placement and
\* is filed at the same node whatever its url, and filing one id removes no
\* id from any node.
C24_OnePlacementPerIntent ==
    [][pc = "batch" =>
          /\ DOMAIN intent_to_placement_dict
                = {<<information[i].question, information[i].query>>
                      : i \in 1..Len(information)}
          /\ \A intent \in decided :
                /\ intent \in decided'
                /\ intent_to_placement_dict'[intent] = intent_to_placement_dict[intent]
          /\ \A n \in Nodes(knowledge_base) :
                knowledge_base.content[n] \subseteq knowledge_base'.content[n]
          /\ \A i, j \in 1..Len(to_return') :
                LET a == to_return'[i][1]
                    b == to_return'[j][1]
                IN (a.question = b.question /\ a.query = b.query) =>
                      /\ to_return'[i][2] = to_return'[j][2]
                      /\ to_return'[i][2].found =>
                            /\ ResolvedNodeAfter(to_return'[i][2].path) # 0
                            /\ {InfoId(knowledge_base', a), InfoId(knowledge_base', b)}
                                  \subseteq knowledge_base'.content[
                                               ResolvedNodeAfter(to_return'[i][2].path)]]_vars

C24_Witness ==
    /\ pc = "batch"
    /\ allow_create_new_node
    /\ Len(to_return) = 2
    /\ to_return[1][1].url # to_return[2][1].url
    /\ IntentOf(to_return[1][1]) = IntentOf(to_return[2][1])
    /\ to_return[1][2].found
    /\ \E n \in Nodes(knowledge_base) : n # 1 /\ Cardinality(knowledge_base.content[n]) = 2

\* the knowledge base with which _expand_node enters the batch insertion:
\* the sub-nodes inserted and the content of the expanded node taken out
BatchStart ==
    [insert_subsections(exp.before,
                        get_expand_subnode_names(exp.proposed, exp.before.name[exp.node]),
                        exp.node).kb EXCEPT !.content[exp.node] = {}]

\* the first k Information of the batch inserted one after the other, in
\* input order, at the placements of their intents
RECURSIVE InsertedInOrder(_, _)
InsertedInOrder(kb, k) ==
    IF k = 0 THEN kb
    ELSE LET placement == intent_to_placement_dict[IntentOf(information[k])]
             earlier == InsertedInOrder(kb, k - 1)
         IN IF placement.found
            THEN insert_information(earlier, placement.path, information[k],
                                    "raise error", insert_root).kb
            ELSE earlier

\* C25: with node creation disallowed, the tree and the id map are those at
\* the start of the batch while the worker threads complete their decisions
\* in any order, and after it they and the returned list are what the
\* placements of the intents give when applied in input order: one entry
\* per input Information, in input order, each with the placement of its
\* intent.
C25_CompletionOrderIrrelevant ==
    (exp.phase \in {"split", "done"} /\ ~allow_create_new_node) =>
        /\ knowledge_base = InsertedInOrder(BatchStart, Len(to_return))
        /\ \A i \in 1..Len(to_return) :
              /\ IntentOf(information[i]) \in decided
              /\ to_return[i] = <<information[i],
                                  intent_to_placement_dict[IntentOf(information[i])]>>
        /\ forward_result = "returned" => Len(to_return) = Len(information)

C25_Witness ==
    /\ exp.phase = "done"
    /\ forward_result = "returned"
    /\ Len(to_return) = 2
    /\ IntentOf(information[1]) # IntentOf(information[2])
    /\ to_return[1][2].found
    /\ to_return[2][2].found
    /\ to_return[1][2] # to_return[2][2]

\* the ids the writer was given for a cached text
CitedBy(lines) == UNION {lines[i].cites : i \in 1..Len(lines)}

\* C26: insert_information leaves the node at which it files an id with
\* need_regenerate_synthesize_output true; gen_section for a node with
\* content calls the writer, stores its text and clears the flag when the
\* flag is set or nothing is cached, and returns the cached text untouched
\* only when there is one and the flag is false.
C26_DirtyFlagCaching ==
    [][/\ (last_call'.op = "insert_information" /\ ~last_call'.raised) =>
             knowledge_base'.need_regenerate_synthesize_output[
                 find_node_by_path(knowledge_base', last_call'.root,
                                   Tail(last_call'.path), "raise error").node]
       /\ last_call'.op = "report" =>
             \A n \in Nodes(knowledge_base) :
                 knowledge_base.content[n] # {} =>
                    /\ ~knowledge_base'.need_regenerate_synthesize_output[n]
                    /\ knowledge_base'.synthesize_output[n] =
                          IF knowledge_base.need_regenerate_synthesize_output[n]
                             \/ knowledge_base.synthesize_output[n] = <<>>
                          THEN write_section(knowledge_base.name[n],
                                             collect_all_content(knowledge_base, n),
                                             last_call'.answer)
                          ELSE knowledge_base.synthesize_output[n]]_vars

C26_Witness ==
    /\ last_call.op = "report"
    /\ \E n \in last_call.rewritten :
          /\ Cardinality(knowledge_base.content[n]) = 2
          /\ CitedBy(knowledge_base.synthesize_output[n]) = knowledge_base.content[n]
          /\ ~knowledge_base.need_regenerate_synthesize_output[n]

\* C29: the section text gen_section returns for a node with content is
\* generated from the node's whole current subtree content: after a report,
\* the text held for the node cites exactly collect_all_content of the node,
\* also when an id was filed at a descendant since the text was cached.
C29_NoStaleSection ==
    last_call.op = "report" =>
        \A n \in Nodes(knowledge_base) :
            knowledge_base.content[n] # {} =>
                CitedBy(knowledge_base.synthesize_output[n])
                    = collect_all_content(knowledge_base, n)

\* C28: choose_candidate_from_embedding_ranking returns no candidate or one
\* of the candidates shown to the chooser, the one the answered number
\* names: a number outside 1..min(top_N_candidates, number of candidates)
\* selects no placement.
C28_SelectsOnlyShownCandidates ==
    (last_call.op = "choose_candidate" /\ last_call.placement.found) =>
        LET shown == considered_candidates(last_call.sorted_candidates,
                                           last_call.top_N_candidates)
        IN /\ last_call.selected_index \in 1..Len(shown)
           /\ last_call.placement.path = shown[last_call.selected_index]

\* the expert turns of the returned history
ExpertTurns == Tail(warmstart.conversation_history)

\* C30: the history WarmStartConversation.forward returns is the background
\* turn followed by exactly one entry for each expert turn that ended without
\* an exception, whatever the interleaving of the workers and whichever
\* turns fail; these are at most min(number of experts, max_num_experts) *
\* max_turn_per_experts, and every turn of every submitted expert was
\* attempted, after a failed turn too.
C30_HistoryHoldsEveryCompletedTurn ==
    warmstart.pc = "returned" =>
        LET submitted == IF warmstart.experts < max_num_experts
                         THEN warmstart.experts ELSE max_num_experts
        IN /\ warmstart.conversation_history[1] = BackgroundTurn
           /\ {ExpertTurns[i] : i \in 1..Len(ExpertTurns)} = warmstart.completed
           /\ Len(ExpertTurns) = Cardinality(warmstart.completed)
           /\ Len(ExpertTurns) <= submitted * max_turn_per_experts
           /\ warmstart.completed \cup warmstart.failed
                 = [role : 1..submitted, turn : 1..max_turn_per_experts]
           /\ warmstart.completed \cap warmstart.failed = {}

C30_Witness ==
    /\ warmstart.pc = "returned"
    /\ warmstart.experts > max_num_experts
    /\ Len(warmstart.conversation_history) = 3
    /\ [role |-> 1, turn |-> 1] \in warmstart.failed
    /\ [role |-> 1, turn |-> 2] \in warmstart.completed
    /\ warmstart.conversation_history[2].role = 2

\* when the call has returned, no node outside the processed list qualifies
NoneQualifiesOnReturn ==
    expand_result = "returned" =>
        \A n \in Nodes(knowledge_base) : ~Qualifies(knowledge_base, n, expanded_nodes)

\* the nodes left to process after a split were already left to process
\* before it: the measure a bound on the number of iterations would rest on
SplitLeavesNoNewNodeToProcess ==
    (pc = "expand" /\ exp.phase = "done") =>
        \A n \in Nodes(knowledge_base) :
            Qualifies(knowledge_base, n, expanded_nodes) => n \in Nodes(exp.before)

\* C27: a call of ExpandNodeModule.forward ends by returning, whatever the
\* sub-node proposal and placement collaborators do, and when it has
\* returned no node outside the processed list of the call has a content
\* size of at least the trigger count.
C27_ExpandForwardReturnsWithNoneQualifying ==
    /\ expand_result # "raised"
    /\ NoneQualifiesOnReturn

====
